---------------------------- MODULE Spec2Model ----------------------------
(***************************************************************************)
(* Model of process.py: the TEI-XML novel corpus to Parquet pipeline.      *)
(*                                                                         *)
(* The program is a straight-line script: module-level configuration and   *)
(* metadata load, then (under __main__) authentication, streaming          *)
(* extraction through paragraph_generator, train/test split, and the sink. *)
(* Text is a sequence of characters; an XML document is a sequence of      *)
(* element nodes in document order, each with its tag, parent, text and    *)
(* tail, as lxml represents them.                                          *)
(***************************************************************************)
EXTENDS Integers, Sequences, FiniteSets, TLC

(***************************************************************************)
(* Bounds of the model.                                                    *)
(***************************************************************************)
MaxNovels == 2
MaxNodes == 3

(***************************************************************************)
(* Program constants.                                                      *)
(***************************************************************************)
DefaultTestPct == 5
DefaultSeed == 42

Unset == "<unset>"
NoTree == <<>>
NoError == "<none>"

(***************************************************************************)
(* Text: str.strip() and "".join().                                        *)
(***************************************************************************)
IsSpace(c) == c \in {" ", "\n"}

RECURSIVE LStrip(_)
LStrip(s) == IF s = <<>> THEN <<>>
             ELSE IF IsSpace(Head(s)) THEN LStrip(Tail(s)) ELSE s

RECURSIVE RStrip(_)
RStrip(s) == IF s = <<>> THEN <<>>
             ELSE IF IsSpace(s[Len(s)]) THEN RStrip(SubSeq(s, 1, Len(s) - 1)) ELSE s

\* Faulty variant of Strip: str.lstrip() in place of str.strip().
StripLeftOnly(s) == LStrip(s)

Strip(s) == RStrip(LStrip(s))

(***************************************************************************)
(* The element tree lxml builds.  tree[n] = [tag, parent, text, tail,       *)
(* tailRead]; parent = 0 for the root, parent = -1 once the node has been  *)
(* removed from its parent.  iterparse feeds the parser one block of the   *)
(* file at a time and then hands out the events of that block, so when an  *)
(* end event is handled the element's tail has been read already, unless   *)
(* the block ends right after the end tag (tailRead = FALSE): that depends *)
(* on the file alone.                                                      *)
(***************************************************************************)
Children(tree, e) == {c \in DOMAIN tree : tree[c].parent = e}

RECURSIVE JoinFrom(_, _, _)
RECURSIVE IterText(_, _)
\* The text of the children of e with index >= c, each followed by its tail.
JoinFrom(tree, e, c) ==
    IF c > Len(tree) THEN <<>>
    ELSE IF tree[c].parent = e
         THEN IterText(tree, c) \o tree[c].tail \o JoinFrom(tree, e, c + 1)
         ELSE JoinFrom(tree, e, c + 1)

\* "".join(elem.itertext()): text of elem, then each child's subtree and tail.
IterText(tree, e) == tree[e].text \o JoinFrom(tree, e, e + 1)

\* tag="{*}p": local name p in any namespace (or none).
MatchesTag(tag) == tag.local = "p"

RECURSIVE EndOrderFrom(_, _, _)
RECURSIVE EndOrder(_, _)
EndOrderFrom(nodes, e, c) ==
    IF c > Len(nodes) THEN <<>>
    ELSE IF nodes[c].parent = e
         THEN EndOrder(nodes, c) \o EndOrderFrom(nodes, e, c + 1)
         ELSE EndOrderFrom(nodes, e, c + 1)

\* The elements of the subtree of e in the order of their end tags.
EndOrder(nodes, e) == EndOrderFrom(nodes, e, e + 1) \o <<e>>

RECURSIVE SelectMatching(_, _)
SelectMatching(nodes, order) ==
    IF order = <<>> THEN <<>>
    ELSE IF MatchesTag(nodes[Head(order)].tag)
         THEN <<Head(order)>> \o SelectMatching(nodes, Tail(order))
         ELSE SelectMatching(nodes, Tail(order))

\* The "end" events iterparse delivers for a document.  A malformed document
\* is one whose root element is never closed: the events of the elements
\* closed before the error are delivered, then the error is raised.
EndEvents(doc) ==
    IF doc.nodes = <<>> THEN <<>>
    ELSE LET all == EndOrder(doc.nodes, 1)
             closed == IF doc.wellFormed THEN all ELSE SubSeq(all, 1, Len(all) - 1)
         IN  SelectMatching(doc.nodes, closed)

\* elem.clear(): resets text and tail and removes the children.  A tail the
\* parser has not read yet is set afterwards, and so survives.
Clear(tree, e) ==
    [n \in DOMAIN tree |->
        IF n = e THEN [tree[n] EXCEPT !.text = <<>>,
                                      !.tail = IF tree[n].tailRead THEN <<>> ELSE @]
        ELSE IF tree[n].parent = e THEN [tree[n] EXCEPT !.parent = -1]
        ELSE tree[n]]

RECURSIVE Retained(_, _)
\* Whether node n is still reachable from the root of the tree.
Retained(tree, n) ==
    IF tree[n].parent = 0 THEN TRUE
    ELSE IF tree[n].parent = -1 THEN FALSE
    ELSE Retained(tree, tree[n].parent)


(***************************************************************************)
(* Metadata table: pd.read_csv(...).set_index("novel_id").to_dict("index") *)
(*                                                                         *)
(* A table file is [exists, hasIdColumn, columns, rows, empty]: whether the *)
(* file is there, the optional columns it has, the novel_id of each row,   *)
(* and the set of <<row, column>> cells that are empty.  A cell value is   *)
(* [kind, v] with kind one of "str", "int", "float", "nan", as pandas      *)
(* types it.                                                               *)
(***************************************************************************)
Fields == {"author_name", "title", "first_edition", "num_word",
           "size", "canonicity", "author_gender"}

\* The columns that hold numerals in the corpus tables modelled here.
NumericColumns == {"first_edition", "num_word"}

StrVal(s) == [kind |-> "str", v |-> s]
IntVal(n) == [kind |-> "int", v |-> n]
FloatVal(n) == [kind |-> "float", v |-> n]
NaN == [kind |-> "nan", v |-> 0]

NovelId(i) == "N" \o ToString(i)
NovelIds == {NovelId(i) : i \in 1..MaxNovels}
IdNumber(id) == CHOOSE i \in 1..MaxNovels : NovelId(i) = id

\* What is written in a non-empty cell of the table.
RawCell(id, f) ==
    IF f = "num_word" THEN 1000 + IdNumber(id)
    ELSE IF f = "first_edition" THEN 1900 + IdNumber(id)
    ELSE f \o " of " \o id

\* pandas type inference: an empty cell is NaN; a numeric column is int64
\* unless one of its cells is empty, which makes the whole column float64.
CellValue(table, r, f) ==
    IF <<r, f>> \in table.empty THEN NaN
    ELSE IF f \in NumericColumns
         THEN IF \E q \in DOMAIN table.rows : <<q, f>> \in table.empty
              THEN FloatVal(RawCell(table.rows[r], f))
              ELSE IntVal(RawCell(table.rows[r], f))
         ELSE StrVal(RawCell(table.rows[r], f))

UniqueIndex(rows) == \A i, j \in DOMAIN rows : rows[i] = rows[j] => i = j

RowOf(rows, id) == CHOOSE r \in DOMAIN rows : rows[r] = id

\* The error read_csv / set_index / to_dict raise for a table, or NoError.
LoadError(table) ==
    IF ~table.exists THEN "FileNotFoundError"
    ELSE IF ~table.hasIdColumn THEN "KeyError"
    ELSE IF ~UniqueIndex(table.rows) THEN "ValueError: index must be unique"
    ELSE NoError

\* meta_map: the keys in row order, and each key's attribute record.
ToDict(table) ==
    [order |-> table.rows,
     rec   |-> [id \in {table.rows[r] : r \in DOMAIN table.rows} |->
                  [f \in table.columns |->
                      CellValue(table, RowOf(table.rows, id), f)]]]

EmptyMap == [order |-> <<>>, rec |-> <<>>]

(***************************************************************************)
(* Record construction: dict.get, str() and int().                         *)
(***************************************************************************)
Get(novel_meta, key, default) ==
    IF key \in DOMAIN novel_meta THEN novel_meta[key] ELSE default

\* str(x)
Str(x) ==
    CASE x.kind = "str"   -> x.v
      [] x.kind = "int"   -> ToString(x.v)
      [] x.kind = "float" -> ToString(x.v) \o ".0"
      [] x.kind = "nan"   -> "nan"

\* int(x) raises ValueError for NaN and for text that is no numeral.
IntRaises(x) == x.kind \in {"nan", "str"}
ToInt(x) == IF IntRaises(x) THEN 0 ELSE x.v

RecordRaises(novel_meta) == IntRaises(Get(novel_meta, "num_word", IntVal(0)))

MetaColumns(novel_meta) ==
    [author        |-> Str(Get(novel_meta, "author_name", StrVal("Unknown"))),
     title         |-> Str(Get(novel_meta, "title", StrVal("Unknown"))),
     first_edition |-> Str(Get(novel_meta, "first_edition", StrVal("Unknown"))),
     num_word      |-> ToInt(Get(novel_meta, "num_word", IntVal(0))),
     size          |-> Str(Get(novel_meta, "size", StrVal("Unknown"))),
     canonicity    |-> Str(Get(novel_meta, "canonicity", StrVal("Unknown"))),
     author_gender |-> Str(Get(novel_meta, "author_gender", StrVal("Unknown")))]

MakeRecord(text, novel_meta, novel_id) ==
    [text |-> text, novel_id |-> novel_id, meta |-> MetaColumns(novel_meta)]

FileName(novel_id) == novel_id \o ".xml"

(***************************************************************************)
(* Configuration from the environment.                                     *)
(***************************************************************************)
GetEnv(e, name, default) == IF e[name] = Unset THEN default ELSE e[name]

\* str.lower() on the values WRITE_LOCAL takes here.
Lower(s) == IF s \in {"TRUE", "True"} THEN "true" ELSE s

LocalOnly(e) ==
    LET v == GetEnv(e, "WRITE_LOCAL", "1") IN v = "1" \/ Lower(v) = "true"

\* "if not HF_TOKEN": unset or the empty string.
TokenMissing(e) == e["HF_TOKEN"] = Unset \/ e["HF_TOKEN"] = ""

\* float(s), as a percentage, for the values HF_SPLIT_TEST_SIZE takes here.
ParsePct(s) ==
    CASE s = "0.05" -> DefaultTestPct
      [] s = "0.5"  -> 50
      [] s = "1.0"  -> 100
      [] OTHER      -> -1

\* int(s) for the values HF_SPLIT_SEED takes here; "x" is no numeral.
IntParses(s) == s \in {"42", "7"}
ParseInt(s) == IF s = "42" THEN DefaultSeed ELSE IF s = "7" THEN 7 ELSE 0

SeedOf(e) == ParseInt(GetEnv(e, "HF_SPLIT_SEED", "42"))

TestPctOf(e) == ParsePct(GetEnv(e, "HF_SPLIT_TEST_SIZE", "0.05"))

(***************************************************************************)
(* Dataset.train_test_split(test_size, seed).  The test fraction is kept   *)
(* as a percentage.  numpy's generator is abstracted by a small congruential*)
(* generator driving a Fisher-Yates shuffle: a permutation fixed by        *)
(* (seed, n).  Without a seed numpy draws fresh entropy, so any permutation*)
(* can come out.                                                           *)
(***************************************************************************)
CeilDiv(a, b) == (a + b - 1) \div b

NTest(pct, n) == CeilDiv(pct * n, 100)

\* test_size must lie strictly between 0 and 1, and n_train = n - n_test must
\* not be 0 (which it is for an empty dataset too).
SplitError(pct, n) ==
    IF pct <= 0 \/ pct >= 100 THEN "ValueError: test_size out of range"
    ELSE IF n - NTest(pct, n) = 0 THEN "ValueError: train set will be empty"
    ELSE NoError

NextRandom(x) == (x * 5 + 3) % 16

Swap(s, i, j) == [s EXCEPT ![i] = s[j], ![j] = s[i]]

RECURSIVE ShuffleFrom(_, _, _)
ShuffleFrom(s, k, x) ==
    IF k <= 1 THEN s
    ELSE ShuffleFrom(Swap(s, k, 1 + (x % k)), k - 1, NextRandom(x))

Permutation(seed, n) == ShuffleFrom([i \in 1..n |-> i], n, NextRandom(seed % 16))

AllPermutations(n) ==
    {s \in [1..n -> 1..n] : \A i, j \in 1..n : s[i] = s[j] => i = j}

\* seed = [given, v]: seed=None leaves the generator unseeded.
Shuffles(seed, n) ==
    IF seed.given THEN {Permutation(seed.v, n)} ELSE AllPermutations(n)

TestIndices(perm, n_test) == SubSeq(perm, 1, n_test)

\* Faulty variant of TrainIndices: the slice starts one index early.
TrainIndicesOverlap(perm, n_test, n_train) == SubSeq(perm, n_test, n_test + n_train - 1)

TrainIndices(perm, n_test, n_train) == SubSeq(perm, n_test + 1, n_test + n_train)


(***************************************************************************)
(* Program state.                                                          *)
(*   env, metaFile, xmlDir  the environment, the metadata table file and   *)
(*                          the XML directory: the inputs of a run         *)
(*   pc                     position in the script                         *)
(*   LOCAL_ONLY, HF_SPLIT_TEST_SIZE, HF_SPLIT_SEED, meta_map               *)
(*                          the module-level globals                       *)
(*   loggedIn               login(token=HF_TOKEN) was called               *)
(*   gi, tree, events, cur  paragraph_generator: index of the novel in     *)
(*                          meta_dict.items(), the element tree of the open*)
(*                          document, the end events still to come, and the*)
(*                          element of the pending yield                   *)
(*   ds, ds_dict, sink      the dataset, its split and what was written    *)
(*   err                    the exception that ended the run               *)
(* History variables, read by no action:                                   *)
(*   reads      the input files opened so far                              *)
(*   prov       for each row of ds, the file and element it came from      *)
(*   visits     for each end event handled, the joined text and whether a  *)
(*              record was yielded                                         *)
(*   processed  the elements of the open document already handled          *)
(*   opened     the novels whose document was opened                       *)
(*   prev       the split and mode of the previous completed run           *)
(***************************************************************************)
VARIABLES env, metaFile, xmlDir, pc, LOCAL_ONLY, HF_SPLIT_TEST_SIZE,
          HF_SPLIT_SEED, meta_map, loggedIn, gi, tree, events, cur,
          ds, ds_dict, sink, err, reads, prov, visits, processed, opened, prev

inputs == <<env, metaFile, xmlDir>>
globals == <<LOCAL_ONLY, HF_SPLIT_TEST_SIZE, HF_SPLIT_SEED, meta_map>>
generator == <<gi, tree, events, cur, processed, opened>>
dataset == <<ds, prov, visits>>
vars == <<env, metaFile, xmlDir, pc, LOCAL_ONLY, HF_SPLIT_TEST_SIZE,
          HF_SPLIT_SEED, meta_map, loggedIn, gi, tree, events, cur,
          ds, ds_dict, sink, err, reads, prov, visits, processed, opened, prev>>

NoSplit == [made |-> FALSE, train |-> <<>>, test |-> <<>>]
NoSink == [dest |-> "none", files |-> {}]
NoPrev == [run |-> FALSE, split |-> NoSplit, local |-> FALSE]

MetadataPath == "level1_metadata.tsv"

(***************************************************************************)
(* Inputs of the model.                                                    *)
(***************************************************************************)
P == [ns |-> "", local |-> "p"]
TeiP == [ns |-> "tei", local |-> "p"]
TeiHi == [ns |-> "tei", local |-> "hi"]
TeiBody == [ns |-> "tei", local |-> "body"]

Node(tag, parent, text, tail) ==
    [tag |-> tag, parent |-> parent, text |-> text, tail |-> tail,
     tailRead |-> TRUE]

\* An element whose end tag is the last thing in a block of the file.
NodeAtBlockEnd(tag, parent, text, tail) ==
    [tag |-> tag, parent |-> parent, text |-> text, tail |-> tail,
     tailRead |-> FALSE]

Missing == [exists |-> FALSE, wellFormed |-> FALSE, nodes |-> <<>>]

\* <body><p>Hi.</p><p></p></body>
DocHello ==
    [exists |-> TRUE, wellFormed |-> TRUE,
     nodes |-> << Node(TeiBody, 0, <<>>, <<>>),
                  Node(P, 1, <<"H", "i", ".">>, <<"\n">>),
                  Node(P, 1, <<>>, <<>>) >>]

\* <body><tei:p> a<hi>b</hi>\n</tei:p><p>c</p><p> </p></body>: two records
DocPair ==
    [exists |-> TRUE, wellFormed |-> TRUE,
     nodes |-> << Node(TeiBody, 0, <<"\n">>, <<>>),
                  Node(TeiP, 1, <<" ", "a">>, <<>>),
                  Node(TeiHi, 2, <<"b">>, <<"\n">>),
                  Node(P, 1, <<"c">>, <<>>),
                  Node(P, 1, <<" ">>, <<>>) >>]

\* <body><p>a</p> followed by a syntax error
DocBad ==
    [exists |-> TRUE, wellFormed |-> FALSE,
     nodes |-> << Node(TeiBody, 0, <<>>, <<>>),
                  Node(P, 1, <<"a">>, <<>>) >>]

\* an empty file
DocEmpty == [exists |-> TRUE, wellFormed |-> FALSE, nodes |-> <<>>]

\* <p>a<p>b</p>c</p>
DocNested ==
    [exists |-> TRUE, wellFormed |-> TRUE,
     nodes |-> << Node(P, 0, <<"a">>, <<>>),
                  Node(P, 1, <<"b">>, <<"c">>) >>]

\* <p>a<p>b</p>c</p> with a block of the file ending after the inner </p>
DocNestedAtBlockEnd ==
    [exists |-> TRUE, wellFormed |-> TRUE,
     nodes |-> << Node(P, 0, <<"a">>, <<>>),
                  NodeAtBlockEnd(P, 1, <<"b">>, <<"c">>) >>]

Catalogue == {Missing, DocHello, DocPair, DocBad, DocEmpty, DocNested,
              DocNestedAtBlockEnd}

\* The generated documents: a tei:body root without text of its own, and
\* below it elements that are paragraphs (tei:p) or inline markup (tei:hi).
NodeTags == {TeiP, TeiHi}
NodeTexts == {<<>>, <<" ">>, <<"a">>}
NodeTails == {<<>>, <<"b">>}

RECURSIVE OnPath(_, _, _)
\* Whether a is k or an ancestor of k under the parent map par.
OnPath(par, k, a) ==
    IF k = a THEN TRUE ELSE IF k = 0 THEN FALSE ELSE OnPath(par, par[k], a)

\* The parent maps of the trees of n nodes listed in document order.
Shapes(n) ==
    {par \in [1..n -> 0..(n - 1)] :
        /\ par[1] = 0
        /\ \A k \in 2..n : par[k] >= 1 /\ OnPath(par, k - 1, par[k])}

GeneratedDoc(n, par, tg, tx, tl) ==
    [exists |-> TRUE, wellFormed |-> TRUE,
     nodes |-> [k \in 1..n |->
                  IF k = 1 THEN Node(TeiBody, 0, <<>>, <<>>)
                  ELSE Node(tg[k], par[k], tx[k], tl[k])]]

EnvNames == {"WRITE_LOCAL", "HF_TOKEN", "HF_SPLIT_TEST_SIZE", "HF_SPLIT_SEED"}

DefaultEnv == [n \in EnvNames |-> Unset]

\* Local mode by default, with a token at hand for a remote run.
BaseEnv == [DefaultEnv EXCEPT !["HF_TOKEN"] = "hf_tok"]

Modes == {Unset, "TRUE", "0"}
Tokens == {Unset, "", "hf_tok"}

Envs ==
    {[WRITE_LOCAL |-> wl, HF_TOKEN |-> tok, HF_SPLIT_TEST_SIZE |-> ts,
      HF_SPLIT_SEED |-> sd] :
        wl \in Modes, tok \in Tokens,
        ts \in {Unset, "0.5", "1.0"}, sd \in {Unset, "7", "x"}}

AllRows == [i \in 1..MaxNovels |-> NovelId(i)]

FullTable == [exists |-> TRUE, hasIdColumn |-> TRUE, columns |-> Fields,
              rows |-> AllRows, empty |-> {}]

RowSeqs == UNION {[1..n -> NovelIds] : n \in 0..MaxNovels}

ColumnChoices == {Fields, {}} \cup {Fields \ {f} : f \in Fields}

Tables ==
    {[FullTable EXCEPT !.exists = FALSE], [FullTable EXCEPT !.hasIdColumn = FALSE]}
    \cup {[FullTable EXCEPT !.rows = rows] : rows \in RowSeqs}
    \cup {[FullTable EXCEPT !.columns = cols] : cols \in ColumnChoices}
    \cup {[FullTable EXCEPT !.empty = {<<r, f>>}] : r \in 1..MaxNovels, f \in Fields}

OneNovel == [FullTable EXCEPT !.rows = <<NovelId(1)>>]

Start ==
    /\ pc = "config"
    /\ LOCAL_ONLY = FALSE
    /\ HF_SPLIT_TEST_SIZE = 0
    /\ HF_SPLIT_SEED = 0
    /\ meta_map = EmptyMap
    /\ loggedIn = FALSE
    /\ gi = 0
    /\ tree = NoTree
    /\ events = <<>>
    /\ cur = 0
    /\ ds = <<>>
    /\ ds_dict = NoSplit
    /\ sink = NoSink
    /\ err = NoError
    /\ reads = {}
    /\ prov = <<>>
    /\ visits = <<>>
    /\ processed = {}
    /\ opened = {}

\* Runs over every environment.
InitEnv ==
    /\ env \in Envs
    /\ metaFile = FullTable
    /\ xmlDir = [id \in NovelIds |-> DocPair]

\* Runs over the XML directories, in each mode, with and without token.
InitFiles ==
    /\ \E wl \in Modes, tok \in Tokens :
         env = [DefaultEnv EXCEPT !["WRITE_LOCAL"] = wl, !["HF_TOKEN"] = tok]
    /\ metaFile = FullTable
    /\ xmlDir \in [NovelIds -> Catalogue]

\* Runs over the metadata tables.
InitMeta ==
    /\ env = BaseEnv
    /\ metaFile \in Tables
    /\ xmlDir \in [NovelIds -> {DocHello, DocPair}]

\* Runs over every generated document of at most MaxNodes elements.
InitDocs ==
    /\ env = BaseEnv
    /\ metaFile = OneNovel
    /\ \E n \in 1..MaxNodes :
         \E par \in Shapes(n), tg \in [2..n -> NodeTags],
            tx \in [2..n -> NodeTexts], tl \in [2..n -> NodeTails] :
           xmlDir = [id \in NovelIds |->
                       IF id = NovelId(1) THEN GeneratedDoc(n, par, tg, tx, tl)
                       ELSE Missing]

Init ==
    /\ InitEnv \/ InitFiles \/ InitMeta \/ InitDocs
    /\ prev = NoPrev
    /\ Start


(***************************************************************************)
(* The script, step by step.                                               *)
(***************************************************************************)
Raise(e) == pc' = "error" /\ err' = e

\* Lines 8-19: the configuration globals.  int() of a seed that is no
\* numeral raises.
ReadConfig ==
    /\ pc = "config"
    /\ LOCAL_ONLY' = LocalOnly(env)
    /\ HF_SPLIT_TEST_SIZE' = TestPctOf(env)
    /\ IF IntParses(GetEnv(env, "HF_SPLIT_SEED", "42"))
       THEN /\ HF_SPLIT_SEED' = SeedOf(env)
            /\ pc' = "load"
            /\ err' = err
       ELSE /\ HF_SPLIT_SEED' = HF_SPLIT_SEED
            /\ Raise("ValueError: invalid literal for int()")
    /\ UNCHANGED <<inputs, meta_map, loggedIn, generator, dataset, ds_dict,
                   sink, reads, prev>>

\* Lines 21-22: df_meta and meta_map, at import time.
LoadMetadata ==
    /\ pc = "load"
    /\ reads' = IF metaFile.exists THEN reads \cup {MetadataPath} ELSE reads
    /\ IF LoadError(metaFile) = NoError
       THEN /\ meta_map' = ToDict(metaFile)
            /\ pc' = "main"
            /\ err' = err
       ELSE /\ meta_map' = meta_map
            /\ Raise(LoadError(metaFile))
    /\ UNCHANGED <<inputs, LOCAL_ONLY, HF_SPLIT_TEST_SIZE, HF_SPLIT_SEED,
                   loggedIn, generator, dataset, ds_dict, sink, prev>>

\* Lines 77-80: authenticate only when uploading.
Authenticate ==
    /\ pc = "main"
    /\ IF LOCAL_ONLY
       THEN /\ pc' = "generate" /\ loggedIn' = loggedIn /\ err' = err
       ELSE IF TokenMissing(env)
            THEN /\ Raise("ValueError: HF_TOKEN environment variable is not set")
                 /\ loggedIn' = loggedIn
            ELSE /\ pc' = "generate" /\ loggedIn' = TRUE /\ err' = err
    /\ UNCHANGED <<inputs, globals, generator, dataset, ds_dict, sink, reads,
                   prev>>

\* The novel the generator is at, and its metadata record.
NovelIdAt(i) == meta_map.order[i]

\* Faulty variant of NovelMeta: the record of the first key for every novel.
NovelMetaOfFirst(i) == meta_map.rec[meta_map.order[1]]

NovelMeta(i) == meta_map.rec[meta_map.order[i]]

\* os.path.exists(file_path)
Exists(novel_id) == xmlDir[novel_id].exists

\* Lines 44-49, file absent: continue with the next novel.
\* Faulty variant of MissingFile: break in place of continue.
MissingFileBreaks ==
    /\ pc = "generate"
    /\ gi + 1 <= Len(meta_map.order)
    /\ ~Exists(NovelIdAt(gi + 1))
    /\ gi' = Len(meta_map.order)
    /\ UNCHANGED <<inputs, globals, pc, loggedIn, tree, events, cur, processed,
                   opened, dataset, ds_dict, sink, err, reads, prev>>

MissingFile ==
    /\ pc = "generate"
    /\ gi + 1 <= Len(meta_map.order)
    /\ ~Exists(NovelIdAt(gi + 1))
    /\ gi' = gi + 1
    /\ UNCHANGED <<inputs, globals, pc, loggedIn, tree, events, cur, processed,
                   opened, dataset, ds_dict, sink, err, reads, prev>>

\* Lines 44-52, file present: open it with iterparse.
OpenDocument ==
    /\ pc = "generate"
    /\ gi + 1 <= Len(meta_map.order)
    /\ Exists(NovelIdAt(gi + 1))
    /\ LET id == NovelIdAt(gi + 1) IN
         /\ gi' = gi + 1
         /\ tree' = xmlDir[id].nodes
         /\ events' = EndEvents(xmlDir[id])
         /\ reads' = reads \cup {FileName(id)}
         /\ opened' = opened \cup {id}
    /\ processed' = {}
    /\ pc' = "parse"
    /\ UNCHANGED <<inputs, globals, loggedIn, cur, dataset, ds_dict, sink, err,
                   prev>>

\* Lines 54-70 for one end event: join and strip the text; yield a record if
\* it is not empty (the generator is then suspended at the yield), otherwise
\* clear the element at once.
HandleEvent ==
    /\ pc = "parse"
    /\ events # <<>>
    /\ LET elem == Head(events)
           raw  == IterText(tree, elem)
           text == Strip(raw)
           id   == NovelIdAt(gi)
       IN  /\ processed' = processed \cup {elem}
           /\ IF text # <<>>
              THEN IF RecordRaises(NovelMeta(gi))
                   THEN /\ Raise("ValueError: cannot convert float NaN to integer")
                        /\ UNCHANGED <<tree, events, cur, dataset>>
                   ELSE /\ ds' = Append(ds, MakeRecord(text, NovelMeta(gi), id))
                        /\ prov' = Append(prov, [file |-> FileName(id), elem |-> elem])
                        /\ visits' = Append(visits, [novel_id |-> id, elem |-> elem,
                                                     raw |-> raw, yielded |-> TRUE])
                        /\ cur' = elem
                        /\ pc' = "yielded"
                        /\ UNCHANGED <<tree, events, err>>
              ELSE /\ visits' = Append(visits, [novel_id |-> id, elem |-> elem,
                                                raw |-> raw, yielded |-> FALSE])
                   /\ tree' = Clear(tree, elem)
                   /\ events' = Tail(events)
                   /\ UNCHANGED <<pc, err, cur, ds, prov>>
    /\ UNCHANGED <<inputs, globals, loggedIn, gi, opened, ds_dict, sink, reads,
                   prev>>

\* Line 70 after a yield: the consumer asks for the next record and the
\* generator resumes with elem.clear().
Resume ==
    /\ pc = "yielded"
    /\ tree' = Clear(tree, cur)
    /\ events' = Tail(events)
    /\ cur' = 0
    /\ pc' = "parse"
    /\ UNCHANGED <<inputs, globals, loggedIn, gi, processed, opened, dataset,
                   ds_dict, sink, err, reads, prev>>

\* Lines 54 and 71: the document ends; del context drops the tree.
EndDocument ==
    /\ pc = "parse"
    /\ events = <<>>
    /\ xmlDir[NovelIdAt(gi)].wellFormed
    /\ tree' = NoTree
    /\ processed' = {}
    /\ pc' = "generate"
    /\ UNCHANGED <<inputs, globals, loggedIn, gi, events, cur, opened, dataset,
                   ds_dict, sink, err, reads, prev>>

\* Faulty variant of ParseError: the error is caught and the novel skipped.
ParseErrorSkipsNovel ==
    /\ pc = "parse"
    /\ events = <<>>
    /\ ~xmlDir[NovelIdAt(gi)].wellFormed
    /\ tree' = NoTree
    /\ processed' = {}
    /\ pc' = "generate"
    /\ UNCHANGED <<inputs, globals, loggedIn, gi, events, cur, opened, dataset,
                   ds_dict, sink, err, reads, prev>>

\* Line 54: the parser reaches the syntax error.  Nothing catches
\* XMLSyntaxError: it leaves the generator and from_generator.
ParseError ==
    /\ pc = "parse"
    /\ events = <<>>
    /\ ~xmlDir[NovelIdAt(gi)].wellFormed
    /\ Raise("XMLSyntaxError")
    /\ UNCHANGED <<inputs, globals, loggedIn, generator, dataset, ds_dict, sink,
                   reads, prev>>

\* Lines 44 and 85-89: meta_dict.items() is exhausted, from_generator returns.
FinishDataset ==
    /\ pc = "generate"
    /\ gi = Len(meta_map.order)
    /\ pc' = "split"
    /\ UNCHANGED <<inputs, globals, loggedIn, generator, dataset, ds_dict, sink,
                   err, reads, prev>>

\* Faulty variant of SeedArg: train_test_split called without seed.
SeedArgNone == [given |-> FALSE, v |-> 0]

\* seed=HF_SPLIT_SEED
SeedArg == [given |-> TRUE, v |-> HF_SPLIT_SEED]

\* Line 91: ds.train_test_split(test_size, seed).
TrainTestSplit ==
    /\ pc = "split"
    /\ LET n == Len(ds)
           n_test == NTest(HF_SPLIT_TEST_SIZE, n)
           n_train == n - n_test
       IN  IF SplitError(HF_SPLIT_TEST_SIZE, n) # NoError
           THEN /\ Raise(SplitError(HF_SPLIT_TEST_SIZE, n))
                /\ ds_dict' = ds_dict
           ELSE /\ \E perm \in Shuffles(SeedArg, n) :
                     ds_dict' = [made |-> TRUE,
                                 train |-> TrainIndices(perm, n_test, n_train),
                                 test |-> TestIndices(perm, n_test)]
                /\ pc' = "write"
                /\ err' = err
    /\ UNCHANGED <<inputs, globals, loggedIn, generator, dataset, sink, reads,
                   prev>>

\* Lines 94-104: one Parquet file per split, or push_to_hub.
WriteOutput ==
    /\ pc = "write"
    /\ sink' = [dest |-> IF LOCAL_ONLY THEN "local" ELSE "hub",
                files |-> {"train.parquet", "test.parquet"}]
    /\ pc' = "done"
    /\ UNCHANGED <<inputs, globals, loggedIn, generator, dataset, ds_dict, err,
                   reads, prev>>

\* The script is run again on the same inputs, with the same seed and test
\* fraction, in any destination mode.
Rerun ==
    /\ pc = "done"
    /\ \E wl \in Modes : env' = [env EXCEPT !["WRITE_LOCAL"] = wl]
    /\ prev' = [run |-> TRUE, split |-> ds_dict, local |-> LOCAL_ONLY]
    /\ pc' = "config"
    /\ LOCAL_ONLY' = FALSE
    /\ HF_SPLIT_TEST_SIZE' = 0
    /\ HF_SPLIT_SEED' = 0
    /\ meta_map' = EmptyMap
    /\ loggedIn' = FALSE
    /\ gi' = 0
    /\ tree' = NoTree
    /\ events' = <<>>
    /\ cur' = 0
    /\ ds' = <<>>
    /\ ds_dict' = NoSplit
    /\ sink' = NoSink
    /\ err' = NoError
    /\ reads' = {}
    /\ prov' = <<>>
    /\ visits' = <<>>
    /\ processed' = {}
    /\ opened' = {}
    /\ UNCHANGED <<metaFile, xmlDir>>

Next ==
    \/ ReadConfig
    \/ LoadMetadata
    \/ Authenticate
    \/ MissingFile
    \/ OpenDocument
    \/ HandleEvent
    \/ Resume
    \/ EndDocument
    \/ ParseError
    \/ FinishDataset
    \/ TrainTestSplit
    \/ WriteOutput
    \/ Rerun

Spec == Init /\ [][Next]_vars


(***************************************************************************)
(* Vocabulary of the properties.                                           *)
(***************************************************************************)
TokenError == "ValueError: HF_TOKEN environment variable is not set"
NaNError == "ValueError: cannot convert float NaN to integer"
SplitErrors == {"ValueError: test_size out of range",
                "ValueError: train set will be empty"}

Keys == {meta_map.order[i] : i \in DOMAIN meta_map.order}
PositionOf(id) == CHOOSE i \in DOMAIN meta_map.order : meta_map.order[i] = id
RowsOf(id) == {i \in DOMAIN ds : ds[i].novel_id = id}
Generated == pc \in {"split", "write", "done"}
SplitDone == pc \in {"write", "done"}

IsBlank(s) == \A k \in DOMAIN s : IsSpace(s[k])
Range(s) == {s[k] : k \in DOMAIN s}

\* A document with a paragraph that has text of its own and no child element.
PlainParagraphs(doc) ==
    {n \in DOMAIN doc.nodes :
        /\ MatchesTag(doc.nodes[n].tag)
        /\ Children(doc.nodes, n) = {}
        /\ ~IsBlank(doc.nodes[n].text)}

\* C1: a novel that is a key of the metadata mapping but has no XML file
\* contributes no record, its file is never opened and no error is raised
\* for it; extraction goes on, so that once the generator is exhausted every
\* novel that has a file was opened and every plain paragraph of a
\* well-formed document has its record.
C1_MissingFileSkipped ==
    /\ \A id \in Keys : ~xmlDir[id].exists =>
          /\ RowsOf(id) = {}
          /\ id \notin opened
          /\ FileName(id) \notin reads
    /\ (pc = "error" /\ err \in {"XMLSyntaxError", NaNError}) =>
          xmlDir[NovelIdAt(gi)].exists
    /\ Generated =>
          \A id \in Keys : xmlDir[id].exists =>
             /\ id \in opened
             /\ Cardinality(RowsOf(id)) >= Cardinality(PlainParagraphs(xmlDir[id]))

\* A completed run in which a novel without file precedes, in metadata order,
\* a novel whose records were emitted.
C1_Witness ==
    /\ pc = "done"
    /\ \E a, b \in Keys :
         /\ ~xmlDir[a].exists
         /\ PositionOf(a) < PositionOf(b)
         /\ RowsOf(b) # {}

\* C2: the text of every emitted record is non-empty and neither starts nor
\* ends with whitespace; an end event yields a record exactly when the joined
\* text of the element has a non-whitespace character; the document with the
\* paragraphs "Hi." and "" yields exactly one record.
C2_TextTrimmedNonEmpty ==
    /\ \A i \in DOMAIN ds :
         /\ ds[i].text # <<>>
         /\ ~IsSpace(ds[i].text[1])
         /\ ~IsSpace(ds[i].text[Len(ds[i].text)])
    /\ \A k \in DOMAIN visits : visits[k].yielded <=> ~IsBlank(visits[k].raw)
    /\ Cardinality({k \in DOMAIN visits : visits[k].yielded}) = Len(ds)
    /\ Generated =>
         \A id \in Keys : xmlDir[id] = DocHello =>
            /\ Cardinality(RowsOf(id)) = 1
            /\ \A i \in RowsOf(id) : ds[i].text = <<"H", "i", ".">>

\* A whitespace-only paragraph was dropped and a paragraph with surrounding
\* whitespace was emitted trimmed.
C2_Witness ==
    /\ \E k \in DOMAIN visits : ~visits[k].yielded /\ visits[k].raw # <<>>
    /\ \E k \in DOMAIN visits :
         /\ visits[k].yielded
         /\ IsSpace(visits[k].raw[1])
         /\ IsSpace(visits[k].raw[Len(visits[k].raw)])

IsPartition(split, n) ==
    /\ Range(split.train) \cap Range(split.test) = {}
    /\ Range(split.train) \cup Range(split.test) = 1..n
    /\ Len(split.train) + Len(split.test) = n
    /\ Cardinality(Range(split.train)) = Len(split.train)
    /\ Cardinality(Range(split.test)) = Len(split.test)

C4_SplitDeterministic ==
    (SplitDone /\ prev.run) => ds_dict = prev.split

\* A second run completed in the other destination mode, on three rows or
\* more.
C4_Witness ==
    /\ pc = "done"
    /\ prev.run
    /\ prev.local # LOCAL_ONLY
    /\ Len(ds) >= 3

ColumnOf(field) == IF field = "author" THEN "author_name" ELSE field
DefaultOf(field) == IF field = "num_word" THEN 0 ELSE "Unknown"
OutputFields == {"author", "title", "first_edition", "num_word", "size",
                 "canonicity", "author_gender"}

FieldMissing(id, field) ==
    \/ ColumnOf(field) \notin metaFile.columns
    \/ <<RowOf(metaFile.rows, id), ColumnOf(field)>> \in metaFile.empty

\* C5 as stated: a missing metadata field, whether its column is absent or
\* the novel's cell is empty, never raises and the records carry the default.
C5_MissingFieldDefaults ==
    /\ err # NaNError
    /\ \A i \in DOMAIN ds : \A field \in OutputFields :
         FieldMissing(ds[i].novel_id, field) =>
            ds[i].meta[field] = DefaultOf(field)

\* C6 as stated: when the missing token error is raised, no input file has
\* been read, no record extracted, no login attempted and nothing written.
C6_TokenErrorBeforeProcessing ==
    err = TokenError =>
        /\ reads = {}
        /\ meta_map = EmptyMap
        /\ ds = <<>>
        /\ ~loggedIn
        /\ sink = NoSink

C7_Abort ==
    err = "XMLSyntaxError" =>
        /\ pc = "error"
        /\ ~xmlDir[NovelIdAt(gi)].wellFormed
        /\ ~ds_dict.made
        /\ sink = NoSink
        /\ \A id \in Keys : PositionOf(id) > gi =>
              /\ id \notin opened
              /\ FileName(id) \notin reads
              /\ RowsOf(id) = {}

C7_NotSkipped ==
    (Generated \/ pc = "generate") => \A id \in opened : xmlDir[id].wellFormed

\* C7: the syntax error of a malformed document is not caught per novel.
\* Once it is raised the run has ended: no step follows, no later novel of
\* the metadata order has been opened or extracted, there is no split and no
\* output; and extraction never goes on past a malformed document.
C7_ParseErrorAbortsRun ==
    /\ [](C7_Abort /\ C7_NotSkipped)
    /\ [][err # "XMLSyntaxError"]_vars

\* The run was aborted by a malformed document after records were extracted,
\* with a later novel that has a file still to come.
C7_Witness ==
    /\ err = "XMLSyntaxError"
    /\ ds # <<>>
    /\ \E id \in Keys : PositionOf(id) > gi /\ xmlDir[id].exists

\* C8: every record references exactly one metadata record: its novel_id is
\* a key of the mapping (keys are unique), it comes from a paragraph element
\* of <novel_id>.xml, and its metadata columns are the coerced attributes of
\* that key's record.
C8_RecordReferencesItsNovel ==
    /\ UniqueIndex(meta_map.order)
    /\ \A i \in DOMAIN ds :
         LET id == ds[i].novel_id
             e  == prov[i].elem
         IN  /\ id \in Keys
             /\ prov[i].file = FileName(id)
             /\ FileName(id) \in reads
             /\ xmlDir[id].exists
             /\ e \in DOMAIN xmlDir[id].nodes
             /\ MatchesTag(xmlDir[id].nodes[e].tag)
             /\ e \in PlainParagraphs(xmlDir[id]) =>
                   ds[i].text = Strip(xmlDir[id].nodes[e].text)
             /\ ds[i].meta = MetaColumns(meta_map.rec[id])

\* Records of two novels with different documents are in the dataset.
C8_Witness ==
    \E i, j \in DOMAIN ds :
        /\ ds[i].novel_id # ds[j].novel_id
        /\ xmlDir[ds[i].novel_id] # xmlDir[ds[j].novel_id]

\* C9 as stated: the text of the record emitted for a paragraph element is
\* the trimmed concatenation of all text of the element's subtree in the
\* document, nested paragraph elements included.
C9_TextIsWholeSubtree ==
    \A i \in DOMAIN ds :
        ds[i].text = Strip(IterText(xmlDir[ds[i].novel_id].nodes, prov[i].elem))

HoldsContent(n) == tree[n].text # <<>> \/ Children(tree, n) # {}

\* C10 as stated: while a document is parsed, every handled element but the
\* one of the pending yield is cleared, at most one handled element holds
\* content, and the handled elements the tree retains do not accumulate.
C10_ProcessedElementsReleased ==
    pc \in {"parse", "yielded"} =>
        /\ \A n \in processed : (pc = "yielded" /\ n = cur) \/ ~HoldsContent(n)
        /\ Cardinality({n \in processed : HoldsContent(n)}) <= 1
        /\ Cardinality({n \in processed : Retained(tree, n)}) <= 1

=============================================================================
